---------------------------- MODULE Spec2Model ----------------------------
(***************************************************************************)
(* A model of du_histogram: duhist.py (the bar renderer, the formatters,   *)
(* the name truncator and main's measurement loop and histogram) and       *)
(* find_old_files.py (the tree scanner, the age-bin table builder and the  *)
(* text histogram).                                                        *)
(*                                                                         *)
(* Strings are sequences of one-character strings, so that lengths,        *)
(* slices and concatenations are computed rather than assumed.  Python     *)
(* floats are modelled as exact rationals (a numerator and a denominator,  *)
(* or cross-multiplied comparisons): every division the code performs on   *)
(* the modelled inputs is either by a power of two or is only compared     *)
(* with small integers.                                                    *)
(*                                                                         *)
(* SpecFn applies the pure functions of duhist.py to inputs drawn from     *)
(* bounded sets.  Spec runs the two programs (duhist.main and              *)
(* find_old_files.main) step by step.                                      *)
(***************************************************************************)
EXTENDS Integers, Sequences, FiniteSets, TLC

VARIABLES
    \* ---- the pure-function harness (SpecFn) ----
    fn,         \* the function applied
    args,       \* its arguments, a record
    called,     \* whether the function has been applied
    ret,        \* what it returned: [s |-> the string, exc |-> the exception]
    \* ---- the programs (Spec) ----
    prog,       \* "duhist" | "find_old_files" | "none"
    pc,         \* the program's position
    cfg,        \* the decoded command line arguments
    fs,         \* what the filesystem holds (the paths / the files of the walk)
    idx,        \* the loop position (path index, file index, record index)
    size_map,   \* duhist.main: name -> size        (a set of <<name, size>>)
    date_map,   \* duhist.main: name -> mtime       (a set of <<name, mtime>>)
    map_name,   \* duhist.main: the loop's local map_name ("unbound" before it is set)
    usage_data, \* find_old_files: owner -> sequence of <<size, mtime, index>>
    min_date,   \* find_old_files: the oldest mtime tracked by the scanner
    now,        \* find_old_files: the clock (in ticks)
    table,      \* find_old_files: counts, owner -> (age_bin -> bytes), and the bounds
    work,       \* which external work has started: du runs, files visited
    error,      \* the exception that ended the program, or "none"
    hist,       \* the histogram's locals (width, tot, maxVal, scale) and the line reached
    bars        \* the calls of the bar renderer made so far, in order

fnvars   == <<fn, args, called, ret>>
progvars == <<prog, pc, cfg, fs, idx, size_map, date_map, map_name,
              usage_data, min_date, now, table, work, error, hist, bars>>
vars     == <<fn, args, called, ret, prog, pc, cfg, fs, idx, size_map, date_map,
              map_name, usage_data, min_date, now, table, work, error, hist, bars>>

-----------------------------------------------------------------------------
(* Python helpers *)

Min(a, b) == IF a < b THEN a ELSE b
Max(a, b) == IF a > b THEN a ELSE b

\* math.ceil(p / q) with Python 3's true division, q # 0
PyCeilDiv(p, q) == IF q > 0 THEN -((-p) \div q) ELSE -(p \div (-q))

\* s[:k]
PySliceTo(s, k) ==
    IF k >= 0 THEN SubSeq(s, 1, Min(k, Len(s)))
              ELSE SubSeq(s, 1, Max(Len(s) + k, 0))

\* s[k:]
PySliceFrom(s, k) ==
    IF k >= 0 THEN SubSeq(s, Min(k, Len(s)) + 1, Len(s))
              ELSE SubSeq(s, Max(Len(s) + k, 0) + 1, Len(s))

\* list[i]: negative indices count from the end; anything else is an IndexError
PyIndexOk(list, i) == -Len(list) <= i /\ i < Len(list)
PyIndex(list, i)   == IF i >= 0 THEN list[i + 1] ELSE list[Len(list) + i + 1]

DigitChars == <<"0", "1", "2", "3", "4", "5", "6", "7", "8", "9">>

\* str(n) for n >= 0
RECURSIVE IntStr(_)
IntStr(n) == IF n < 10 THEN <<DigitChars[n + 1]>>
             ELSE IntStr(n \div 10) \o <<DigitChars[(n % 10) + 1]>>

\* left-pad s with character c to at least w characters ('%2...' and '{:02d}')
RECURSIVE PadLeft(_, _, _)
PadLeft(s, c, w) == IF Len(s) >= w THEN s ELSE PadLeft(<<c>> \o s, c, w)

\* round(num / den) to the nearest integer, ties to even (printf's %.0f / %.1f on
\* an exactly represented value), num >= 0, den > 0
RoundHalfEven(num, den) ==
    LET q == num \div den
        r == num % den
    IN  IF 2 * r < den THEN q
        ELSE IF 2 * r > den THEN q + 1
        ELSE IF q % 2 = 0 THEN q ELSE q + 1

Ok(s)     == [s |-> s, exc |-> "none"]
Raise(e)  == [s |-> <<>>, exc |-> e]
NoRet     == [s |-> <<>>, exc |-> "pending"]

-----------------------------------------------------------------------------
(* duhist.get13charName *)

RECURSIVE PadName(_, _)
PadName(name, name_width) ==
    IF Len(name) < name_width THEN PadName(name \o <<" ">>, name_width) ELSE name

\* the slip of an integer (floor) division for end_start
get13charName_floor(name, name_width) ==
    IF Len(name) > name_width
    THEN LET start_end == PyCeilDiv(name_width - 3, 2)
             end_start == (3 - name_width) \div 2
         IN  PySliceTo(name, start_end) \o <<"*", "*", "*">> \o PySliceFrom(name, end_start)
    ELSE PadName(name, name_width)

get13charName(name, name_width) ==
    IF Len(name) > name_width
    THEN LET start_end == PyCeilDiv(name_width - 3, 2)
             end_start == PyCeilDiv(3 - name_width, 2)
         IN  PySliceTo(name, start_end) \o <<"*", "*", "*">> \o PySliceFrom(name, end_start)
    ELSE PadName(name, name_width)

-----------------------------------------------------------------------------
(* duhist.getBar and duhist.getLogBar.  value and scale are integers here:  *)
(* only their quotient is used, and len(s) < value/scale is                 *)
(* len(s) * scale < value for a positive scale.                             *)

logChars == <<"-", "~", "=", "#">>

\* getBar's while loop.  With log set, the loop body reads the name maxVal, which
\* is bound nowhere in the module's globals (main's maxVal is a local): NameError.
RECURSIVE getBarLoop(_, _, _, _)
getBarLoop(s, value, scale, log) ==
    IF Len(s) * scale < value
    THEN IF log THEN Raise("NameError")
         ELSE getBarLoop(s \o <<"=">>, value, scale, log)
    ELSE Ok(s)

\* a loop that stops one character early (floor instead of ceiling)
RECURSIVE getBarLoopShort(_, _, _, _)
getBarLoopShort(s, value, scale, log) ==
    IF (Len(s) + 1) * scale <= value
    THEN IF log THEN Raise("NameError")
         ELSE getBarLoopShort(s \o <<"=">>, value, scale, log)
    ELSE Ok(s)

getBar_short(value, scale, log) ==
    IF scale = 0 THEN Raise("ZeroDivisionError")
    ELSE IF value < scale THEN Ok(<<>>)
    ELSE getBarLoopShort(<<"=">>, value, scale, log)

getBar(value, scale, log) ==
    IF scale = 0 THEN Raise("ZeroDivisionError")
    ELSE IF value < scale THEN Ok(<<>>)
    ELSE getBarLoop(<<"=">>, value, scale, log)

\* the ramp index getLogBar computes with len(s) characters written
LogCharIndex(len, maxWidth) == PyCeilDiv(Len(logChars) * len, maxWidth) - 1

RECURSIVE getLogBarLoop(_, _, _, _, _, _)
getLogBarLoop(s, char, value, scale, maxWidth, log) ==
    IF Len(s) * scale < value
    THEN IF log
         THEN IF maxWidth = 0 THEN Raise("ZeroDivisionError")
              ELSE IF ~PyIndexOk(logChars, LogCharIndex(Len(s), maxWidth))
                   THEN Raise("IndexError")
              ELSE LET c == PyIndex(logChars, LogCharIndex(Len(s), maxWidth))
                   IN  getLogBarLoop(s \o <<c>>, c, value, scale, maxWidth, log)
         ELSE getLogBarLoop(s \o <<char>>, char, value, scale, maxWidth, log)
    ELSE Ok(s)

\* a ramp lookup that forgets the "- 1"
RECURSIVE getLogBarLoopOff(_, _, _, _, _, _)
getLogBarLoopOff(s, char, value, scale, maxWidth, log) ==
    IF Len(s) * scale < value
    THEN IF log
         THEN IF maxWidth = 0 THEN Raise("ZeroDivisionError")
              ELSE IF ~PyIndexOk(logChars, LogCharIndex(Len(s), maxWidth) + 1)
                   THEN Raise("IndexError")
              ELSE LET c == PyIndex(logChars, LogCharIndex(Len(s), maxWidth) + 1)
                   IN  getLogBarLoopOff(s \o <<c>>, c, value, scale, maxWidth, log)
         ELSE getLogBarLoopOff(s \o <<char>>, char, value, scale, maxWidth, log)
    ELSE Ok(s)

getLogBar_off(value, scale, maxWidth, log) ==
    IF scale = 0 THEN Raise("ZeroDivisionError")
    ELSE IF value < scale THEN Ok(<<>>)
    ELSE getLogBarLoopOff(<<logChars[1]>>, logChars[1], value, scale, maxWidth, log)

getLogBar(value, scale, maxWidth, log) ==
    IF scale = 0 THEN Raise("ZeroDivisionError")
    ELSE IF value < scale THEN Ok(<<>>)
    ELSE getLogBarLoop(<<logChars[1]>>, logChars[1], value, scale, maxWidth, log)

-----------------------------------------------------------------------------
(* duhist.getSizeString.  TLC's integers are 32 bits wide and the claim     *)
(* ranges over [0, 2^60), so val is the pair <<mant, exp>> standing for     *)
(* mant * 1024^exp.  float(val) and the divisions by 1024 are exact for     *)
(* these values, so size is the rational mant * 1024^exp with exp going     *)
(* negative as the loop divides.                                            *)

steps == <<"K", "M", "G", "T", "P">>

RECURSIVE Pow1024(_)
Pow1024(k) == IF k = 0 THEN 1 ELSE 1024 * Pow1024(k - 1)

\* size > 99 for size = mant * 1024^exp: with exp >= 1 any mant >= 1 gives
\* size >= 1024
SizeGt99(mant, exp) ==
    IF exp >= 1 THEN mant >= 1 ELSE mant > 99 * Pow1024(-exp)

\* while size > 99: size /= 1024; step += 1
RECURSIVE SizeLoop(_, _, _)
SizeLoop(mant, exp, step) ==
    IF SizeGt99(mant, exp) THEN SizeLoop(mant, exp - 1, step + 1)
    ELSE [mant |-> mant, exp |-> exp, step |-> step]

\* the formatted number, size = num / den after the loop
SizeDigits(num, den) ==
    IF 20 * num >= 19 * den                       \* size >= .95
    THEN PadLeft(IntStr(RoundHalfEven(num, den)), " ", 2)               \* '%2.f'
    ELSE LET t == RoundHalfEven(10 * num, den)                          \* '%.1f'
             f == IntStr(t \div 10) \o <<".">> \o <<DigitChars[(t % 10) + 1]>>
         IN  PySliceFrom(f, -2)                                         \* size[-2:]

getSizeString(val) ==
    LET l   == SizeLoop(val[1], val[2], 0)
        num == l.mant
        den == IF l.exp < 0 THEN Pow1024(-l.exp) ELSE 1
        \* the loop leaves exp > 0 only with mant = 0
        size == SizeDigits(IF l.exp > 0 THEN 0 ELSE num, den)
    IN  IF ~PyIndexOk(steps, l.step) THEN Raise("IndexError")
        ELSE Ok(size \o <<PyIndex(steps, l.step)>>)

-----------------------------------------------------------------------------
(* duhist.get3charAge.  Ages are counted in ticks of AgeRes seconds (TLC's  *)
(* integers do not hold a century of seconds); every unit is a multiple of  *)
(* AgeRes, so unit_count = age_s / unit_size is age / (unit_size / AgeRes). *)

units == [h |-> 3600, d |-> 24 * 3600, m |-> 24 * 3600 * 30, y |-> 24 * 3600 * 365]

AgeRes == units.h \div 60

\* sorted(units.keys(), key=lambda u: units[u], reverse=True)
RECURSIVE SortedUnitsDesc(_)
SortedUnitsDesc(S) ==
    IF S = {} THEN <<>>
    ELSE LET u == CHOOSE x \in S : \A y \in S : units[x] >= units[y]
         IN  <<u>> \o SortedUnitsDesc(S \ {u})

RECURSIVE AgeLoop(_, _)
AgeLoop(age, order) ==
    IF order = <<>> THEN Ok(<<"0", "0", "h">>)                \* the for's else
    ELSE LET unit      == Head(order)
             unit_size == units[unit] \div AgeRes
         IN  IF 2 * age >= 3 * unit_size                       \* unit_count >= 1.5
             THEN Ok(PadLeft(IntStr(age \div unit_size), "0", 2) \o <<unit>>)
             ELSE AgeLoop(age, Tail(order))

get3charAge(age) == AgeLoop(age, SortedUnitsDesc(DOMAIN units))

-----------------------------------------------------------------------------
(* SpecFn: the pure functions applied to inputs drawn from bounded sets *)

MaxNameLen   == 8       \* labels of 0..MaxNameLen characters
MaxNameWidth == 7       \* name_width in 0..MaxNameWidth
MaxValue     == 12      \* bar values in 0..MaxValue
MaxScale     == 3       \* bar scales in 0..MaxScale
MaxBarWidth  == 5       \* maxWidth in 0..MaxBarWidth
MaxMantissa  == 1100    \* getSizeString: val = mant * 1024^exp, mant in 0..MaxMantissa
MaxExp       == 5       \*                exp in 0..MaxExp
MaxHalfUnits == 201     \* get3charAge: ages around c/2 units, c in 0..MaxHalfUnits

NameChars == {"a", "b"}
Names     == UNION {[1..n -> NameChars] : n \in 0..MaxNameLen}

\* mant * 1024^exp < 2^60 (mant is below 2^30 throughout)
BelowTwoTo60(mant, exp) ==
    mant = 0 \/ (exp <= 5 /\ (exp <= 3 \/ mant < Pow1024(6 - exp)))

SizeVals == {v \in (0..MaxMantissa) \X (0..MaxExp) : BelowTwoTo60(v[1], v[2])}

\* ages (in ticks of AgeRes seconds) at and next to the half multiples of each unit
AgeVals ==
    {a \in {c * ((units[u] \div AgeRes) \div 2) + d :
                c \in 0..MaxHalfUnits, u \in DOMAIN units, d \in {-1, 0, 1}} : a >= 0}

\* before the histogram: nothing computed, no line reached
NoHist == [at |-> "none"]

ProgIdle ==
    /\ prog = "none" /\ pc = "idle" /\ cfg = <<>> /\ fs = <<>> /\ idx = 0
    /\ size_map = {} /\ date_map = {} /\ map_name = "unbound"
    /\ usage_data = <<>> /\ min_date = 0 /\ now = 0 /\ table = <<>>
    /\ work = {} /\ error = "none"
    /\ hist = NoHist /\ bars = <<>>

InitFn ==
    /\ ProgIdle
    /\ called = FALSE
    /\ ret = NoRet
    /\ \/ fn = "get13charName"
          /\ args \in [name : Names, name_width : 0..MaxNameWidth]
       \/ fn = "getBar"
          /\ args \in [value : 0..MaxValue, scale : 0..MaxScale, log : BOOLEAN]
       \/ fn = "getLogBar"
          /\ args \in [value : 0..MaxValue, scale : 0..MaxScale,
                       maxWidth : 0..MaxBarWidth, log : BOOLEAN]
       \/ fn = "getSizeString" /\ args \in [val : SizeVals]
       \/ fn = "get3charAge" /\ args \in [age_s : AgeVals]

Return(r) == called' = TRUE /\ ret' = r /\ UNCHANGED <<fn, args, progvars>>

CallGet13charName ==
    /\ fn = "get13charName" /\ ~called
    /\ Return(Ok(get13charName(args.name, args.name_width)))

CallGetBar ==
    /\ fn = "getBar" /\ ~called
    /\ Return(getBar(args.value, args.scale, args.log))

CallGetLogBar ==
    /\ fn = "getLogBar" /\ ~called
    /\ Return(getLogBar(args.value, args.scale, args.maxWidth, args.log))

CallGetSizeString ==
    /\ fn = "getSizeString" /\ ~called
    /\ Return(getSizeString(args.val))

CallGet3charAge ==
    /\ fn = "get3charAge" /\ ~called
    /\ Return(get3charAge(args.age_s))

NextFn ==
    \/ CallGet13charName
    \/ CallGetBar
    \/ CallGetLogBar
    \/ CallGetSizeString
    \/ CallGet3charAge

SpecFn == InitFn /\ [][NextFn]_vars

-----------------------------------------------------------------------------
(* Claims about the pure functions (checked under SpecFn) *)

Returned(f) == fn = f /\ called

\* C1: for every label and every width >= 5, get13charName returns exactly width
\* characters: a longer label becomes its first ceil((width-3)/2) characters, then
\* '***', then its last width - 3 - ceil((width-3)/2) characters; a shorter label
\* is followed by spaces up to width; a label of exactly width characters is
\* returned unchanged.
C1_TruncateExactWidth ==
    (Returned("get13charName") /\ args.name_width >= 5) =>
        LET name == args.name
            w    == args.name_width
            n    == Len(name)
            k    == (w - 2) \div 2
            out  == ret.s
        IN  /\ ret.exc = "none"
            /\ Len(out) = w
            /\ n > w => out = SubSeq(name, 1, k) \o <<"*", "*", "*">>
                                \o SubSeq(name, n - (w - 3 - k) + 1, n)
            /\ n < w => /\ SubSeq(out, 1, n) = name
                        /\ \A i \in (n + 1)..w : out[i] = " "
            /\ n = w => out = name

\* C1's case: a label longer than an even width (where floor and ceiling differ)
C1_Witness ==
    /\ Returned("get13charName")
    /\ args.name_width = 6
    /\ Len(args.name) = 8
    /\ ret.s = SubSeq(args.name, 1, 2) \o <<"*", "*", "*">> \o SubSeq(args.name, 8, 8)

\* the unit step of C2: the number of divisions by 1024 that bring val to 99 or
\* below, val = mant * 1024^exp
RECURSIVE DivisionsTo99(_, _)
DivisionsTo99(mant, exp) ==
    IF mant = 0 THEN 0
    ELSE IF exp > 0 THEN 1 + DivisionsTo99(mant, exp - 1)
    ELSE IF mant > 99 THEN 1 + DivisionsTo99((mant + 1023) \div 1024, 0)
    ELSE 0

\* C2: for every kilobyte value in [0, 2^60), getSizeString returns without error
\* a string of exactly 3 characters ending in one unit suffix from K, M, G, T, P,
\* the suffix being the one at the number of divisions by 1024 that bring the
\* value to 99 or below.
C2_SizeStringThreeChars ==
    Returned("getSizeString") =>
        /\ ret.exc = "none"
        /\ Len(ret.s) = 3
        /\ DivisionsTo99(args.val[1], args.val[2]) \in 0..4
        /\ ret.s[3] = steps[DivisionsTo99(args.val[1], args.val[2]) + 1]
        /\ \A i \in 1..2 : ret.s[i] \notin {steps[j] : j \in 1..5}

\* C3: for every non-negative age, get3charAge returns exactly 3 characters: a
\* 2-digit zero-padded count and one unit of h, d, m, y, the unit being the
\* largest whose count is >= 1.5 and the count the integer part of age/unit;
\* "00h" when no unit has a count >= 1.5.
C3_AgeThreeChars ==
    Returned("get3charAge") =>
        LET age  == args.age_s
            ticks(u) == units[u] \div AgeRes
            ok   == {u \in DOMAIN units : 2 * age >= 3 * ticks(u)}
        IN  /\ ret.exc = "none"
            /\ Len(ret.s) = 3
            /\ ok = {} => ret.s = <<"0", "0", "h">>
            /\ ok # {} =>
                 LET u == CHOOSE x \in ok : \A y \in ok : units[x] >= units[y]
                     count == age \div ticks(u)
                 IN  ret.s = <<DigitChars[(count \div 10) + 1],
                               DigitChars[(count % 10) + 1], u>>

\* the smallest integer >= value / scale
CeilQuot(value, scale) == (value + scale - 1) \div scale

\* the calls whose loop reads nothing undefined: getBar in linear mode, getLogBar
\* with its ramp lookup in range
BarInContract ==
    \/ fn = "getBar" /\ ~args.log
    \/ fn = "getLogBar" /\ ~args.log
    \/ fn = "getLogBar" /\ args.log /\ args.maxWidth > 0
         /\ args.value <= args.scale * (args.maxWidth + 1)

Rank(c) == CHOOSE i \in 1..Len(logChars) : logChars[i] = c

\* what C10 says of a returned bar: the symbol appended with i characters written
\* is ramp[ceil(4*i/maxWidth) - 1], the index within 0..3, the symbols
\* non-decreasing in intensity
RampFollowed ==
    /\ ret.exc = "none"
    /\ Len(ret.s) >= 1 => ret.s[1] = logChars[1]
    /\ \A i \in 1..(Len(ret.s) - 1) :
         LET r == (Len(logChars) * i + args.maxWidth - 1) \div args.maxWidth
         IN  /\ r - 1 \in 0..3
             /\ ret.s[i + 1] = logChars[r]
             /\ Rank(ret.s[i]) <= Rank(ret.s[i + 1])

\* C10 as stated: in logarithmic mode, for every value, scale and maxWidth the
\* ramp index stays within 0..3 (no out-of-range lookup), the symbol at position
\* i is ramp[ceil(4*i/maxWidth) - 1] and the symbols are non-decreasing.
C10_RampIndexAlwaysInRange ==
    (Returned("getLogBar") /\ args.log /\ args.scale > 0 /\ args.maxWidth > 0) =>
        RampFollowed

\* C10 amended: in logarithmic mode, for every positive scale and maxWidth and
\* every value with value/scale <= maxWidth + 1, the ramp index stays within
\* 0..3, the symbol appended at position i is ramp[ceil(4*i/maxWidth) - 1] and the
\* symbols are non-decreasing; nothing clamps the index, and for
\* value/scale > maxWidth + 1 the lookup leaves the ramp (IndexError).
C10_RampIndexInRangeWithinWidth ==
    (Returned("getLogBar") /\ args.log /\ args.scale > 0 /\ args.maxWidth > 0) =>
        IF args.value <= args.scale * (args.maxWidth + 1)
        THEN RampFollowed
        ELSE ret.exc = "IndexError"

\* C10's case: a full-width bar that walks the whole ramp
C10_Witness ==
    /\ Returned("getLogBar") /\ args.log
    /\ args.maxWidth = 4 /\ args.scale = 2 /\ args.value = 10
    /\ ret.s = <<"-", "-", "~", "=", "#">>

-----------------------------------------------------------------------------
(* duhist.main.  Names are sequences of path components: "a" is <<"a">> and  *)
(* os.path.join("p", "a") is <<"p", "a">>.  The working directory "." holds *)
(* the empty directory e, the regular file f and the directory p, which     *)
(* holds a and b.                                                           *)

MaxMtime  == 2      \* modification times in 1..MaxMtime
MaxDuSize == 1      \* du reports 0 and the powers of two below 2^MaxDuSize
MaxPaths  == 2      \* at most MaxPaths <path> arguments

\* the sizes du reports: 0, 1, 2, 4, ..., whose logarithms have rational quotients
DuSizes == {0} \cup {2^k : k \in 0..(MaxDuSize - 1)}

Dirs == {".", "p", "e"}
PathArgs == {".", "p", "e", "f"}

\* what the shell's * expands to in a directory, in du's output order
Children(dir) ==
    CASE dir = "." -> <<"e", "f", "p">>
      [] dir = "p" -> <<"a", "b">>
      [] OTHER     -> <<>>

\* the file a name leads to: "./x" is x
Canon(n) == IF Len(n) = 2 /\ n[1] = "." THEN <<n[2]>> ELSE n

Entries == {<<"e">>, <<"f">>, <<"p">>, <<"p", "a">>, <<"p", "b">>}

NameWidths == {4, 5}
TextWidths == {11, 80}

DuConfigs ==
    [log : BOOLEAN, time_sort : BOOLEAN, max_width : TextWidths,
     name_width : NameWidths,
     du_paths : UNION {[1..n -> PathArgs] : n \in 0..MaxPaths}]

\* d with d[k] = v (a Python dict assignment)
DictSet(d, k, v) == [x \in DOMAIN d \cup {k} |-> IF x = k THEN v ELSE d[x]]

FnIdle == fn = "none" /\ args = <<>> /\ called = FALSE /\ ret = NoRet

InitDuhist ==
    /\ FnIdle
    /\ prog = "duhist" /\ pc = "args"
    /\ cfg \in DuConfigs
    /\ fs \in [Entries -> 1..MaxMtime]          \* each entry's st_mtime
    /\ idx = 0
    /\ size_map = <<>> /\ date_map = <<>> /\ map_name = "unbound"
    /\ usage_data = <<>> /\ min_date = 0 /\ now = 0 /\ table = <<>>
    /\ work = {} /\ error = "none"
    /\ hist = NoHist /\ bars = <<>>

\* what duhist.main never touches
finderUnchanged == UNCHANGED <<prog, usage_data, min_date, now, table>>

\* lines 172-196: decode the arguments, default the paths, check the name width
DuArgs ==
    /\ prog = "duhist" /\ pc = "args"
    /\ cfg' = [cfg EXCEPT !.du_paths = IF Len(@) = 0 THEN <<".">> ELSE @]
    /\ IF cfg.name_width < 5
       THEN pc' = "failed" /\ error' = "Exception"
       ELSE pc' = "measure" /\ error' = error
    /\ idx' = 1
    /\ UNCHANGED <<fs, size_map, date_map, map_name, work, hist, bars, fnvars>>
    /\ finderUnchanged

\* the name a directory's child is stored under (line 203)
MapName(path, name) == IF Len(cfg.du_paths) = 1 THEN <<name>> ELSE <<path, name>>

\* lines 200-206 for the children cs of path, sizes[i] being du's figure for cs[i]
RECURSIVE DuDirLoop(_, _, _, _, _, _)
DuDirLoop(path, cs, sizes, sm, dm, mn) ==
    IF cs = <<>> THEN [size_map |-> sm, date_map |-> dm, map_name |-> mn]
    ELSE LET name == Head(cs)
             full_name == <<path, name>>
             m == MapName(path, name)
         IN  DuDirLoop(path, Tail(cs), Tail(sizes),
                       DictSet(sm, m, Head(sizes)),
                       IF cfg.time_sort THEN DictSet(dm, m, fs[Canon(full_name)]) ELSE dm,
                       m)

\* one iteration of the path loop over a directory (lines 199-206)
DuMeasureDir ==
    /\ prog = "duhist" /\ pc = "measure" /\ idx <= Len(cfg.du_paths)
    /\ cfg.du_paths[idx] \in Dirs
    /\ LET path == cfg.du_paths[idx]
           cs   == Children(path)
       IN  \E sizes \in [1..Len(cs) -> DuSizes] :
             LET r == DuDirLoop(path, cs, sizes, size_map, date_map, map_name)
             IN  /\ size_map' = r.size_map
                 /\ date_map' = r.date_map
                 /\ map_name' = r.map_name
    /\ work' = work \cup {"du"}
    /\ idx' = idx + 1
    /\ UNCHANGED <<pc, cfg, fs, error, hist, bars, fnvars>>
    /\ finderUnchanged

\* one iteration of the path loop over a regular file (lines 207-210): the date
\* is stored under map_name, the directory loop's variable, not under path
DuMeasureFile ==
    /\ prog = "duhist" /\ pc = "measure" /\ idx <= Len(cfg.du_paths)
    /\ cfg.du_paths[idx] \notin Dirs
    /\ LET path == cfg.du_paths[idx]
       IN  /\ \E size \in DuSizes : size_map' = DictSet(size_map, <<path>>, size)
           /\ IF cfg.time_sort
              THEN IF map_name = "unbound"
                   THEN /\ error' = "UnboundLocalError" /\ pc' = "failed"
                        /\ date_map' = date_map
                   ELSE /\ date_map' = DictSet(date_map, map_name, fs[Canon(<<path>>)])
                        /\ UNCHANGED <<error, pc>>
              ELSE UNCHANGED <<date_map, error, pc>>
    /\ work' = work \cup {"du"}
    /\ idx' = idx + 1
    /\ UNCHANGED <<cfg, fs, map_name, hist, bars, fnvars>>
    /\ finderUnchanged

\* lines 212-221: sort the names (by date with --time: a name missing from
\* date_map is a KeyError), then exit if nothing was measured
DuSort ==
    /\ prog = "duhist" /\ pc = "measure" /\ idx > Len(cfg.du_paths)
    /\ IF cfg.time_sort /\ ~(DOMAIN size_map \subseteq DOMAIN date_map)
       THEN pc' = "failed" /\ error' = "KeyError"
       ELSE IF DOMAIN size_map = {}
       THEN pc' = "failed" /\ error' = "SystemExit"
       ELSE pc' = "range" /\ error' = error
    /\ UNCHANGED <<cfg, fs, idx, size_map, date_map, map_name, work, hist, bars, fnvars>>
    /\ finderUnchanged

-----------------------------------------------------------------------------
(* The histogram of duhist.main (lines 223-255), which                      *)
(* find_old_files.generate_text_table repeats.  A float of the histogram is *)
(* the record [ln, num, den]: num / den, or log(num) / den when ln is set.  *)
(* The sizes being 0 or powers of two, every quotient of two logarithms is  *)
(* the rational Log2(a) / Log2(b).                                          *)

\* sum(d.values()) and max(d.values()) of a non-empty dict d
RECURSIVE SumOver(_, _)
SumOver(d, K) ==
    IF K = {} THEN 0
    ELSE LET k == CHOOSE x \in K : TRUE IN d[k] + SumOver(d, K \ {k})
PySum(d) == SumOver(d, DOMAIN d)
PyMax(d) == CHOOSE v \in {d[k] : k \in DOMAIN d} : \A k \in DOMAIN d : d[k] <= v

\* math.log(n) / math.log(2) for a power of two n
RECURSIVE Log2(_)
Log2(n) == IF n <= 1 THEN 0 ELSE 1 + Log2(n \div 2)

\* a float of the histogram is 0.0: log(1), or 0 over anything
IsZero(x) == IF x.ln THEN x.num = 1 ELSE x.num = 0

\* value / scale as the quotient of two integers, the second one >= 0 and 0
\* exactly when scale is 0.0.  (A value that is no logarithm meets a scale that
\* is one only when the value is 0.)
BarQuot(value, scale) ==
    <<(IF value.ln THEN Log2(value.num) ELSE value.num) * scale.den,
      IF scale.ln THEN Log2(scale.num) ELSE scale.num>>

\* lines 239-245: the bar of one entry; the call made and what it returns
BarCall(size, scale, width, log) ==
    IF log /\ size > 0
    THEN LET barSize == [ln |-> TRUE, num |-> size, den |-> 1]
             q == BarQuot(barSize, scale)
         IN  [fn |-> "getLogBar", value |-> barSize, scale |-> scale,
              ret |-> getLogBar(q[1], q[2], width, log)]
    ELSE LET barSize == [ln |-> FALSE, num |-> size, den |-> 1]
             q == BarQuot(barSize, scale)
         IN  [fn |-> "getBar", value |-> barSize, scale |-> scale,
              ret |-> getBar(q[1], q[2], log)]

\* lines 237-252: the loop over the sorted names, up to the first call that
\* raises.  (Of each line written only the bar is kept.)
RECURSIVE PrintHistogram(_, _, _, _, _)
PrintHistogram(sorted_names, data, scale, width, log) ==
    IF sorted_names = <<>> THEN <<>>
    ELSE LET c == BarCall(data[Head(sorted_names)], scale, width, log)
         IN  IF c.ret.exc # "none" THEN <<c>>
             ELSE <<c>> \o PrintHistogram(Tail(sorted_names), data, scale, width, log)

\* the exception that ended the loop, if one did
LoopError(calls) ==
    IF calls # <<>> /\ calls[Len(calls)].ret.exc # "none"
    THEN calls[Len(calls)].ret.exc ELSE "none"

\* lines 228-255 for the sizes in data, the bars being width columns wide:
\* tot, maxVal, its logarithm with --log (math.log raises ValueError at 0),
\* scale (a width of 0 is a ZeroDivisionError), then the loop
Histogram(data, sorted_names, width, log) ==
    LET tot    == PySum(data)
        maxVal == PyMax(data)
        locals == [width |-> width, tot |-> tot, maxVal |-> maxVal]
    IN  IF log /\ maxVal <= 0
        THEN [hist |-> [at |-> "log"] @@ locals, bars |-> <<>>, error |-> "ValueError"]
        ELSE IF width = 0
        THEN [hist |-> [at |-> "scale"] @@ locals, bars |-> <<>>,
              error |-> "ZeroDivisionError"]
        ELSE LET scale == [ln |-> log, num |-> maxVal, den |-> width]
                 calls == PrintHistogram(sorted_names, data, scale, width, log)
             IN  [hist |-> [at |-> IF LoopError(calls) = "none" THEN "total" ELSE "bars",
                            scale |-> scale] @@ locals,
                  bars |-> calls, error |-> LoopError(calls)]

\* lines 224-227 of duhist.main: the columns left of the bar
LabelWidth == cfg.name_width + 6 + (IF cfg.time_sort THEN 4 ELSE 0)

\* the names one path puts into size_map, in order (lines 199-208)
KeysOf(path) ==
    IF path \in Dirs
    THEN [i \in 1..Len(Children(path)) |-> MapName(path, Children(path)[i])]
    ELSE <<<<path>>>>

\* seq followed by the elements of ks it does not hold yet
RECURSIVE AppendNew(_, _)
AppendNew(seq, ks) ==
    IF ks = <<>> THEN seq
    ELSE AppendNew(IF \E i \in 1..Len(seq) : seq[i] = Head(ks)
                   THEN seq ELSE Append(seq, Head(ks)),
                   Tail(ks))

\* size_map.keys(): the names in the order the path loop first stored them
RECURSIVE Keys(_)
Keys(paths) ==
    IF paths = <<>> THEN <<>>
    ELSE AppendNew(Keys(SubSeq(paths, 1, Len(paths) - 1)), KeysOf(paths[Len(paths)]))

\* sorted(names, key=lambda x: key[x]): ascending, equal keys in their given order
RECURSIVE sorted(_, _)
sorted(names, key) ==
    IF names = <<>> THEN <<>>
    ELSE LET s == sorted(SubSeq(names, 1, Len(names) - 1), key)
             x == names[Len(names)]
             k == Cardinality({i \in 1..Len(s) : key[s[i]] <= key[x]})
         IN  SubSeq(s, 1, k) \o <<x>> \o SubSeq(s, k + 1, Len(s))

\* lines 213-217
SortedNames == sorted(Keys(cfg.du_paths), IF cfg.time_sort THEN date_map ELSE size_map)

\* lines 223-255: the range, the scale, the histogram and the total
DuHistogram ==
    /\ prog = "duhist" /\ pc = "range"
    /\ LET r == Histogram(size_map, SortedNames, cfg.max_width - LabelWidth, cfg.log)
       IN  /\ hist' = r.hist
           /\ bars' = r.bars
           /\ error' = r.error
           /\ pc' = IF r.error = "none" THEN "done" ELSE "failed"
    /\ UNCHANGED <<cfg, fs, idx, size_map, date_map, map_name, work, fnvars>>
    /\ finderUnchanged

NextDuhist == DuArgs \/ DuMeasureDir \/ DuMeasureFile \/ DuSort \/ DuHistogram

-----------------------------------------------------------------------------
(* find_old_files.main.  Time is counted in ticks of half a minute; the     *)
(* scan starts at StartTime, and the files carry times from 0 (the oldest)  *)
(* to StartTime + 1 (ahead of the clock).                                   *)

time_spans == [minutes |-> 60, hours |-> 3600, days |-> 3600 * 24,
               weeks |-> 3600 * 24 * 7, months |-> 3600 * 24 * 30]

Tick == time_spans.minutes \div 2

MaxFileAge == 2     \* the oldest file is MaxFileAge ticks old when the scan starts
MaxFiles   == 2     \* the walk visits at most MaxFiles entries

StartTime == MaxFileAge
Times     == 0..StartTime
\* st_ctime: never changed since, changed just now, or a tick ahead of the clock
CTimes    == {0, StartTime, StartTime + 1}
FileSizes == {0, 1}             \* st_size: an empty file, a file of one byte
Owners    == {"u1", "u2"}
BinTypes  == {"minutes", "bogus"}
BinSizes  == {0, 1, 2}          \* --size
MinAges   == {0, 1}             \* --age
Delays    == {0, 1}             \* the ticks that pass between two readings of the clock
FindTextWidths == {10, 80}      \* --width

\* what the walk meets: a regular file with its stat, or a broken link
Files ==
    [isfile : {TRUE}, st_uid : Owners, st_mtime : Times, st_ctime : CTimes,
     st_size : FileSizes]
    \cup {[isfile |-> FALSE]}

FindConfigs ==
    [age_bin_size : BinSizes, age_bin_type : BinTypes, min_age : MinAges,
     user_list : {{}, {"u1"}}, table : BOOLEAN]

\* cfg with the option opt, drawn where main first uses it: --hist at line 105
\* when no table is asked for (or is short-circuit) and at line 118 otherwise,
\* --width at line 120
WithOption(opt, v) == cfg @@ (opt :> v)

InitFind ==
    /\ FnIdle
    /\ prog = "find_old_files" /\ pc = "args"
    /\ cfg \in FindConfigs
    /\ fs = <<>>                        \* the entries the walk has met so far
    /\ idx = 0
    /\ size_map = <<>> /\ date_map = <<>> /\ map_name = "unbound"
    /\ usage_data = <<>> /\ min_date = 0 /\ now = StartTime /\ table = <<>>
    /\ work = {} /\ error = "none"
    /\ hist = NoHist /\ bars = <<>>

\* what find_old_files.main never touches
duhistUnchanged == UNCHANGED <<prog, size_map, date_map, map_name>>

\* a time span in ticks
SpanTicks(type) == time_spans[type] \div Tick

\* min_age as main passes it to the scanner (line 76), in ticks
MinAge == cfg.min_age * SpanTicks(cfg.age_bin_type)

\* users as main passes it (lines 78-80): None, here {}, when no --user is given
Users == cfg.user_list

\* lines 58-80: decode the arguments; time_spans[age_bin_type] is a KeyError for
\* an unknown type.  Then the scanner is called (lines 83, 191-199).
FindArgs ==
    /\ prog = "find_old_files" /\ pc = "args"
    /\ IF cfg.age_bin_type \notin DOMAIN time_spans
       THEN /\ pc' = "failed" /\ error' = "KeyError"
            /\ UNCHANGED <<work, min_date>>
       ELSE /\ pc' = "scan" /\ error' = error
            /\ work' = work \cup {"walk"}
            /\ min_date' = now                         \* int(datetime.now().timestamp())
    /\ usage_data' = <<>>
    /\ UNCHANGED <<cfg, fs, idx, now, table, hist, bars, fnvars>>
    /\ duhistUnchanged

\* the loop body of the scanner with the owner filter after the oldest-file
\* tracking and the age filter before it
ScanFile_swapped(ud, md, f, users, min_age, file_path) ==
    IF ~f.isfile THEN [usage_data |-> ud, min_date |-> md]
    ELSE LET owner == f.st_uid
             mtime == Max(f.st_mtime, f.st_ctime)
             file_age == now - mtime
         IN  IF file_age < min_age THEN [usage_data |-> ud, min_date |-> md]
             ELSE IF users # {} /\ owner \notin users
                  THEN [usage_data |-> ud, min_date |-> Min(mtime, md)]
             ELSE [usage_data |->
                       DictSet(ud, owner,
                               (IF owner \in DOMAIN ud THEN ud[owner] ELSE <<>>)
                                   \o <<<<f.st_size, mtime, file_path>>>>),
                   min_date |-> Min(mtime, md)]

\* the loop body of the scanner (lines 202-225) for the entry f at file_path: the
\* new usage_data and min_date.  users = {} stands for None.
ScanFile(ud, md, f, users, min_age, file_path) ==
    IF ~f.isfile THEN [usage_data |-> ud, min_date |-> md]       \* skip broken links
    ELSE LET owner == f.st_uid
         IN  IF users # {} /\ owner \notin users                 \* filter by owner
             THEN [usage_data |-> ud, min_date |-> md]
             ELSE LET mtime == Max(f.st_mtime, f.st_ctime)
                      file_age == now - mtime
                  IN  IF file_age < min_age                      \* filter by age
                      THEN [usage_data |-> ud, min_date |-> Min(mtime, md)]
                      ELSE [usage_data |->
                                DictSet(ud, owner,
                                        (IF owner \in DOMAIN ud THEN ud[owner] ELSE <<>>)
                                            \o <<<<f.st_size, mtime, file_path>>>>),
                            min_date |-> Min(mtime, md)]

\* the walk meets one more entry
FindVisit ==
    /\ prog = "find_old_files" /\ pc = "scan" /\ idx < MaxFiles
    /\ \E f \in Files :
         LET r == ScanFile(usage_data, min_date, f, Users, MinAge, idx + 1)
         IN  /\ fs' = Append(fs, f)
             /\ usage_data' = r.usage_data
             /\ min_date' = r.min_date
    /\ idx' = idx + 1
    /\ UNCHANGED <<pc, cfg, now, table, work, error, hist, bars, fnvars>>
    /\ duhistUnchanged

\* the walk ends and the scanner returns usage_data and min_date (line 229), the
\* walk's entries being left behind; main goes on to the table if a table or a
\* histogram was asked for (line 105)
FindScanned ==
    /\ prog = "find_old_files" /\ pc = "scan"
    /\ IF cfg.table
       THEN cfg' = cfg /\ pc' = "table"
       ELSE \E print_histogram \in BOOLEAN :
              /\ cfg' = WithOption("hist", print_histogram)
              /\ pc' = IF print_histogram THEN "table" ELSE "done"
    /\ fs' = <<>>
    /\ UNCHANGED <<idx, usage_data, min_date, now, table, work, error, hist, bars, fnvars>>
    /\ duhistUnchanged

\* numpy.arange(0, stop, step) for step > 0
Arange(stop, step) ==
    [i \in 1..(IF stop > 0 THEN PyCeilDiv(stop, step) ELSE 0) |-> (i - 1) * step]

\* get_file_size_table, lines 237-246: read the clock, compute the bin bounds.
\* A step of 0 ends in numpy.arange's exception.
FindTableBounds ==
    /\ prog = "find_old_files" /\ pc = "table"
    /\ \E d \in Delays : now' = now + d
    /\ LET age_bins_step == cfg.age_bin_size * SpanTicks(cfg.age_bin_type)
           oldest_age    == now' - min_date
       IN  IF age_bins_step = 0
           THEN /\ pc' = "failed" /\ error' = "ZeroDivisionError"
                /\ table' = table
           ELSE /\ pc' = "counts" /\ error' = error
                /\ table' = [age_bins_step  |-> age_bins_step,
                             age_bin_bounds |-> Arange(oldest_age + age_bins_step,
                                                       age_bins_step),
                             counts         |-> <<>>]
    /\ UNCHANGED <<cfg, fs, idx, usage_data, min_date, work, hist, bars, fnvars>>
    /\ duhistUnchanged

\* int(p / q) for q > 0: truncation towards zero
PyIntDiv(p, q) == IF p >= 0 THEN p \div q ELSE -((-p) \div q)

\* owner_counts after the files of file_data_list, assigning instead of adding
RECURSIVE OwnerCounts_assign(_, _, _, _, _)
OwnerCounts_assign(file_data_list, t, age_bins_step, min_age, owner_counts) ==
    IF file_data_list = <<>> THEN owner_counts
    ELSE LET file_data == Head(file_data_list)
             size      == file_data[1]
             file_age  == t - file_data[2]
             age_bin   == PyIntDiv(file_age, age_bins_step)
         IN  OwnerCounts_assign(Tail(file_data_list), t, age_bins_step, min_age,
                 IF file_age < min_age THEN owner_counts
                 ELSE DictSet(owner_counts, age_bin, size))

\* lines 252-258: owner_counts after the files of file_data_list, t being the
\* clock's reading
RECURSIVE OwnerCounts(_, _, _, _, _)
OwnerCounts(file_data_list, t, age_bins_step, min_age, owner_counts) ==
    IF file_data_list = <<>> THEN owner_counts
    ELSE LET file_data == Head(file_data_list)
             size      == file_data[1]
             file_age  == t - file_data[2]
             age_bin   == PyIntDiv(file_age, age_bins_step)
         IN  OwnerCounts(Tail(file_data_list), t, age_bins_step, min_age,
                 IF file_age < min_age THEN owner_counts
                 ELSE DictSet(owner_counts, age_bin,
                              (IF age_bin \in DOMAIN owner_counts
                               THEN owner_counts[age_bin] ELSE 0) + size))

\* the min_age main leaves to get_file_size_table's default (line 234)
TableMinAge == 0

\* get_file_size_table, lines 248-258: read the clock again, add every file's
\* size to its owner's age bin
FindTableCounts ==
    /\ prog = "find_old_files" /\ pc = "counts"
    /\ \E d \in Delays : now' = now + d
    /\ table' = [table EXCEPT !.counts =
                    [owner \in DOMAIN usage_data |->
                        OwnerCounts(usage_data[owner], now', table.age_bins_step,
                                    TableMinAge, <<>>)]]
    /\ pc' = "labels"
    /\ UNCHANGED <<cfg, fs, idx, usage_data, min_date, work, error, hist, bars, fnvars>>
    /\ duhistUnchanged

\* the rows of the data frame: every age bin some owner has
TableIndex == UNION {DOMAIN table.counts[owner] : owner \in DOMAIN table.counts}

\* get_bin_bounds_string (lines 183-184) reads bin_bounds[bin_index] and
\* bin_bounds[bin_index + 1]
BoundsReadable(bin_index, bin_bounds) ==
    /\ PyIndexOk(bin_bounds, bin_index)
    /\ PyIndexOk(bin_bounds, bin_index + 1)

\* get_file_size_table, lines 262-274: label every row of the table with its
\* bin's bounds; main goes on to the histogram if one was asked for (line 118)
FindTableLabels ==
    /\ prog = "find_old_files" /\ pc = "labels"
    /\ IF \A i \in TableIndex : BoundsReadable(i, table.age_bin_bounds)
       THEN /\ error' = error
            /\ IF "hist" \in DOMAIN cfg
               THEN cfg' = cfg /\ pc' = (IF cfg.hist THEN "hist" ELSE "done")
               ELSE \E print_histogram \in BOOLEAN :
                      /\ cfg' = WithOption("hist", print_histogram)
                      /\ pc' = IF print_histogram THEN "hist" ELSE "done"
       ELSE pc' = "failed" /\ error' = "IndexError" /\ cfg' = cfg
    /\ UNCHANGED <<fs, idx, usage_data, min_date, now, table, work, hist, bars, fnvars>>
    /\ duhistUnchanged

\* generate_text_table's default for the columns left of the bar (line 141)
label_width == 10

\* the owners in the order of their names
OwnerOrder == <<"u1", "u2">>

\* sorted(data.keys(), key=lambda k: str(k)) (line 147)
SortedKeys(data) ==
    LET Held(owner) == owner \in DOMAIN data
    IN  SelectSeq(OwnerOrder, Held)

\* generate_text_table (lines 139-176) as main calls it, log being left False:
\* exit on no data, else the range, the scale, the histogram and the total
generate_text_table(data, max_width) ==
    IF DOMAIN data = {}
    THEN [hist |-> [at |-> "empty"], bars |-> <<>>, error |-> "SystemExit"]
    ELSE Histogram(data, SortedKeys(data), max_width - label_width, FALSE)

\* lines 119-123: the bytes of every owner (the sums of the table's columns) go
\* to the text histogram
FindHistogram ==
    /\ prog = "find_old_files" /\ pc = "hist"
    /\ \E text_width \in FindTextWidths :
         LET usage_by_uid ==
                 [owner \in DOMAIN table.counts |-> PySum(table.counts[owner])]
             r == generate_text_table(usage_by_uid, text_width)
         IN  /\ cfg' = WithOption("text_width", text_width)
             /\ hist' = r.hist
             /\ bars' = r.bars
             /\ error' = r.error
             /\ pc' = IF r.error = "none" THEN "done" ELSE "failed"
    /\ UNCHANGED <<fs, idx, usage_data, min_date, now, table, work, fnvars>>
    /\ duhistUnchanged

NextFind ==
    \/ FindArgs
    \/ FindVisit
    \/ FindScanned
    \/ FindTableBounds
    \/ FindTableCounts
    \/ FindTableLabels
    \/ FindHistogram

-----------------------------------------------------------------------------
(* The specifications of the programs *)

SpecDu   == InitDuhist /\ [][NextDuhist]_vars
SpecFind == InitFind /\ [][NextFind]_vars

Init == InitDuhist \/ InitFind
Next == NextDuhist \/ NextFind
Spec == Init /\ [][Next]_vars

-----------------------------------------------------------------------------
(* Claims about find_old_files.main (checked under SpecFind) *)

\* get_file_size_table has filled counts
TableBuilt ==
    /\ prog = "find_old_files"
    /\ pc \in {"labels", "hist", "done", "failed"}
    /\ cfg.table \/ ("hist" \in DOMAIN cfg /\ cfg.hist)
    /\ \/ error \in {"none", "IndexError"}
       \/ hist.at # "none"

RECURSIVE SumSizes(_, _)
\* the sum of the sizes of the records of file_data_list at the indices in I
SumSizes(file_data_list, I) ==
    IF I = {} THEN 0
    ELSE LET i == CHOOSE x \in I : TRUE
         IN  file_data_list[i][1] + SumSizes(file_data_list, I \ {i})

RECURSIVE SumCells(_, _)
\* the sum of the cells of owner_counts at the bins in B
SumCells(owner_counts, B) ==
    IF B = {} THEN 0
    ELSE LET b == CHOOSE x \in B : TRUE
         IN  owner_counts[b] + SumCells(owner_counts, B \ {b})

\* the age bin C5 gives a record
FloorBin(file_data) == (now - file_data[2]) \div table.age_bins_step

\* C5: for every owner of the scan result, the owner's cells of the usage table
\* sum to the sizes of the owner's records whose age is at least the minimum
\* age, and each such record's size is in exactly one cell, the one with index
\* floor((now - mtime) / binWidthSeconds).
C5_OwnerCellsSumToSizes ==
    TableBuilt =>
        \A owner \in DOMAIN usage_data :
            LET recs == usage_data[owner]
                old  == {i \in 1..Len(recs) : now - recs[i][2] >= TableMinAge}
                cells == table.counts[owner]
            IN  /\ \A i \in 1..Len(recs) : StartTime - recs[i][2] >= MinAge
                /\ SumCells(cells, DOMAIN cells) = SumSizes(recs, old)
                /\ \A i \in old : FloorBin(recs[i]) \in DOMAIN cells
                /\ \A b \in DOMAIN cells :
                     cells[b] = SumSizes(recs, {i \in old : FloorBin(recs[i]) = b})

\* C5's case: an owner with two files of one byte, which share a cell
C5_Witness ==
    /\ TableBuilt
    /\ \E owner \in DOMAIN usage_data :
         /\ Len(usage_data[owner]) = 2
         /\ usage_data[owner][1][1] = 1
         /\ usage_data[owner][2][1] = 1
         /\ FloorBin(usage_data[owner][1]) = FloorBin(usage_data[owner][2])
         /\ table.counts[owner][FloorBin(usage_data[owner][1])] = 2

\* C6: for every bin index k that receives a file, boundary k and boundary k+1
\* both exist, so labelling the bins never reads past the end of the boundary
\* list (also when the oldest age is an exact multiple of the bin width).
C6_BinsHaveBounds ==
    TableBuilt =>
        /\ error # "IndexError"
        /\ \A owner \in DOMAIN table.counts :
             \A k \in DOMAIN table.counts[owner] :
                 k + 2 <= Len(table.age_bin_bounds)

\* the regular files among the entries the walk has met
RegularFiles == {i \in 1..Len(fs) : fs[i].isfile}

\* the files the owner filter lets through
OwnerPasses(f) == Users = {} \/ f.st_uid \in Users

\* the least element of a non-empty set of numbers
MinOf(S) == CHOOSE x \in S : \A y \in S : x <= y

\* the time the scanner calls a file's mtime (line 215)
Stamp(f) == Max(f.st_mtime, f.st_ctime)

\* C9 as stated: the oldest modification time of the scanner is the minimum
\* mtime over every regular file visited, whether or not the file passes the
\* owner filter or the minimum-age filter.  (mtime read as the scanner's own
\* mtime, and the minimum as starting from the scan's time, so that what is left
\* to refute is the gating alone.)
C9_OldestOverAllFiles ==
    (prog = "find_old_files" /\ pc = "scan") =>
        min_date = MinOf({now} \cup {Stamp(fs[i]) : i \in RegularFiles})

\* C9 amended: the oldest modification time of the scanner is the minimum of the
\* scan's starting time and of max(mtime, ctime) over the regular files visited
\* that pass the owner filter, whether or not they pass the minimum-age filter:
\* the tracking is gated by the owner filter and not by the age filter.  It holds
\* after every entry of the walk, the last one included, where the scanner
\* returns min_date as it stands.
C9_OldestOverOwnerFiles ==
    (prog = "find_old_files" /\ pc = "scan") =>
        min_date = MinOf({now} \cup
                         {Stamp(fs[i]) : i \in {j \in RegularFiles : OwnerPasses(fs[j])}})

\* C9's case: a file too young for the age filter has set the oldest time, and an
\* older file of a filtered-out owner has not
C9_Witness ==
    /\ prog = "find_old_files" /\ pc = "scan"
    /\ \E i \in RegularFiles :
         /\ OwnerPasses(fs[i])
         /\ now - Stamp(fs[i]) < MinAge
         /\ Stamp(fs[i]) = min_date
         /\ min_date < now
    /\ \E i \in RegularFiles :
         /\ ~OwnerPasses(fs[i])
         /\ Stamp(fs[i]) < min_date

-----------------------------------------------------------------------------
(* Claims about duhist.main (checked under SpecDu) and about both mains     *)
(* (checked under Spec)                                                     *)

\* a configuration C7 calls invalid
InvalidConfig ==
    \/ /\ prog = "duhist"
       /\ \/ cfg.name_width < 5
          \/ cfg.max_width - LabelWidth < 1
    \/ /\ prog = "find_old_files"
       /\ \/ cfg.age_bin_type \notin DOMAIN time_spans
          \/ cfg.age_bin_size <= 0

\* C7: every invalid configuration parameter (name width < 5, unknown age-bin
\* unit, non-positive age-bin size, text width leaving no room for a bar) is
\* fatal and reported before any work starts: before du is invoked in
\* duhist.main, before the walk begins in find_old_files.main.
C7_InvalidConfigBeforeWork ==
    InvalidConfig =>
        /\ work = {}
        /\ pc \notin {"done", "range"}

\* the file a name of size_map stands for
Denotes(n) ==
    IF Len(n) = 2 THEN Canon(n)
    ELSE IF Len(cfg.du_paths) = 1 /\ cfg.du_paths[1] \in Dirs
         THEN Canon(<<cfg.du_paths[1], n[1]>>)
         ELSE Canon(n)

\* C8: with age-sort, after duhist.main has measured any sequence of paths the
\* name->mtime mapping has exactly the names of the name->size mapping, each
\* mtime that of the entry the name denotes, so sorting by mtime meets no missing
\* or stale key.
C8_DateMapMatchesSizeMap ==
    (prog = "duhist" /\ cfg.time_sort) =>
        /\ error \notin {"UnboundLocalError", "KeyError"}
        /\ (pc = "range" \/ (pc = "measure" /\ idx > Len(cfg.du_paths))) =>
              /\ DOMAIN date_map = DOMAIN size_map
              /\ \A n \in DOMAIN date_map : date_map[n] = fs[Denotes(n)]

\* C11: the histogram callers (duhist.main and generate_text_table) reject a
\* scale of 0 and a bar width of 0 before they invoke the bar renderer: whatever
\* the sizes (all 0, or with --log a largest size of 1 or 0) and the text width,
\* getBar and getLogBar are never called with a scale of 0, and computing the
\* scale meets neither a division by zero nor the logarithm of zero.
C11_ScaleNeverZero ==
    /\ \A i \in 1..Len(bars) : ~IsZero(bars[i].scale)
    /\ hist.at \notin {"log", "scale"}

=============================================================================
